---- MODULE Spec2Model ----
(***************************************************************************)
(* Rotation of an RDS MariaDB credential with the alternating-users        *)
(* scheme (SecretsManagerRDSMariaDBRotationMultiUser/lambda_function.py).  *)
(*                                                                         *)
(* State: the rotated secret's version table (staging labels and payloads),*)
(* the master secret, the database's user table, the RDS inventory entry   *)
(* for the replica endpoint, and a record of what the last invocation of   *)
(* lambda_handler did.  One action per invocation of lambda_handler; the   *)
(* secrets service starting a rotation is an action of the environment.    *)
(*                                                                         *)
(* Texts (user names, host names) are sequences of one-character strings;  *)
(* a grant row is a sequence of words, so that endswith, slicing and       *)
(* split are computed as the code computes them.                           *)
(***************************************************************************)
EXTENDS Integers, Sequences, FiniteSets, TLC

\* ---------------------------------------------------------------- bounds
\* Number of version ids (ClientRequestTokens) of the rotated secret.
NumTokens == 3
\* Longest run of "a" used as the stem of a user name in the pure
\* specification of get_alt_username.
MaxStemLen == 82
\* How many times the clone suffix may be appended to a stem there.
MaxSuffixReps == 2

\* ------------------------------------------------------ program constants
\* len(new_username) > 80 (get_alt_username).
MaxUsernameLen == 80
\* default port of get_connection.
DefaultPort == 3306

Tokens == 1..NumTokens
\* token=None of get_secret_dict: no version id given.
NoToken == 0
\* Enough passwords for every version and every database user to hold a
\* different one, so that get_random_password can always return a new one.
Passwords == 1..(NumTokens + 3)
\* A password get_random_password never returns and no database user has.
BadPassword == NumTokens + 4

Labels == {"AWSCURRENT", "AWSPENDING", "AWSPREVIOUS"}
Steps == {"createSecret", "setSecret", "testSecret", "finishSecret"}
\* The Step values an invocation may carry: the four steps and one other.
StepInputs == Steps \cup {"rotateSecret"}

\* ------------------------------------------------------------------ texts
CloneSuffix == <<"_", "c", "l", "o", "n", "e">>
AppUser == <<"a", "p", "p", "_", "u", "s", "e", "r">>
AppUserCloneClone == AppUser \o CloneSuffix \o CloneSuffix
AppUserClone == AppUser \o CloneSuffix
OtherUser == <<"b", "o", "b">>
MasterUser == <<"r", "o", "o", "t">>

RECURSIVE Rep(_, _)
Rep(c, n) == IF n = 0 THEN <<>> ELSE <<c>> \o Rep(c, n - 1)

\* A user name of 75 characters: with the suffix appended it has 81.
LongUser == Rep("a", MaxUsernameLen - Len(CloneSuffix) + 1)

Db1 == <<"d", "b", "1">>
Db2 == <<"d", "b", "2", ".", "e", "u">>
Db3 == <<"d", "b", "3">>
\* The endpoints that serve the database: the primary db1 and db2.eu, which
\* replicates it.  pymysql.connect to any other host fails.
DbHosts == {Db1, Db2}

MasterArn == "arn:master"

\* str.endswith
EndsWith(s, suffix) ==
    /\ Len(s) >= Len(suffix)
    /\ SubSeq(s, Len(s) - Len(suffix) + 1, Len(s)) = suffix

\* A get_alt_username that refuses a new name of MaxUsernameLen characters.
GetAltUsernameOffByOne(current_username) ==
    IF EndsWith(current_username, CloneSuffix)
    THEN [err |-> FALSE,
          name |-> SubSeq(current_username, 1, Len(current_username) - Len(CloneSuffix))]
    ELSE LET new_username == current_username \o CloneSuffix
         IN  IF Len(new_username) >= MaxUsernameLen
             THEN [err |-> TRUE, name |-> <<>>]
             ELSE [err |-> FALSE, name |-> new_username]

\* A get_alt_username that appends the suffix to every name.
GetAltUsernameAlwaysAppend(current_username) ==
    LET new_username == current_username \o CloneSuffix
    IN  IF Len(new_username) > MaxUsernameLen
        THEN [err |-> TRUE, name |-> <<>>]
        ELSE [err |-> FALSE, name |-> new_username]

\* get_alt_username: a record [err, name]; err stands for the ValueError
\* raised when the name with the suffix appended exceeds 80 characters.
GetAltUsername(current_username) ==
    IF EndsWith(current_username, CloneSuffix)
    THEN [err |-> FALSE,
          name |-> SubSeq(current_username, 1, Len(current_username) - Len(CloneSuffix))]
    ELSE LET new_username == current_username \o CloneSuffix
         IN  IF Len(new_username) > MaxUsernameLen
             THEN [err |-> TRUE, name |-> <<>>]
             ELSE [err |-> FALSE, name |-> new_username]

\* host.split(".")[0]
RECURSIVE InstanceId(_)
InstanceId(host) ==
    IF host = <<>> \/ Head(host) = "."
    THEN <<>>
    ELSE <<Head(host)>> \o InstanceId(Tail(host))

\* --------------------------------------------------------- secret payloads
\* The SecretString of a version, parsed (lines 23-32).  Every payload of the
\* model is a JSON object with all seven keys; NoPayload marks a version id
\* that is staged but has no value yet.
NoPayload == [absent |-> TRUE]

SecretDict(host, username, password) ==
    [engine |-> "mariadb", host |-> host, username |-> username,
     password |-> password, dbname |-> "app", port |-> DefaultPort,
     masterarn |-> MasterArn]

\* get_secret_value of the rotated secret: by stage, and by version id too
\* when a token is passed.  found = FALSE is ResourceNotFoundException.
GetSecretValue(st, pl, stage, token) ==
    LET holders == {t \in Tokens : stage \in st[t] /\ pl[t] # NoPayload}
    IN  IF token # NoToken
        THEN IF token \in holders
             THEN [found |-> TRUE, SecretString |-> pl[token]]
             ELSE [found |-> FALSE, SecretString |-> NoPayload]
        ELSE IF holders # {}
             THEN [found |-> TRUE, SecretString |-> pl[CHOOSE t \in holders : TRUE]]
             ELSE [found |-> FALSE, SecretString |-> NoPayload]

\* The validations of get_secret_dict on a fetched payload.
ValidateSecret(secret) ==
    IF ~secret.found
    THEN [err |-> "ResourceNotFoundException", dict |-> NoPayload]
    ELSE IF secret.SecretString.engine # "mariadb"
         THEN [err |-> "KeyError", dict |-> NoPayload]
         ELSE [err |-> "none", dict |-> secret.SecretString]

\* get_secret_dict(service_client, arn, stage, token) for the rotated secret.
GetSecretDict(st, pl, stage, token) ==
    ValidateSecret(GetSecretValue(st, pl, stage, token))

\* get_secret_dict(service_client, master_arn, "AWSCURRENT").
GetMasterDict(ms) ==
    ValidateSecret([found |-> TRUE, SecretString |-> ms])

\* A put_secret_value that replaces the value a version has.
PutSecretValueOverwrites(st, pl, token, dict, labels) ==
    [err |-> "none",
     stages |-> [t \in Tokens |->
                   IF t = token THEN st[t] \cup labels ELSE st[t] \ labels],
     payload |-> [pl EXCEPT ![token] = dict]]

\* A put_secret_value that stores the value at another version than the
\* token's.
PutSecretValueAtPending(st, pl, token, dict, labels) ==
    LET target == IF \E t \in Tokens : "AWSPENDING" \in st[t] /\ t # token
                  THEN CHOOSE t \in Tokens : "AWSPENDING" \in st[t] /\ t # token
                  ELSE CHOOSE t \in Tokens : t # token
    IN  [err |-> "none",
         stages |-> st,
         payload |-> [pl EXCEPT ![target] = dict]]

\* put_secret_value(SecretId, ClientRequestToken, SecretString, VersionStages):
\* the value is stored at the token and the given labels are attached to
\* it, and to no other version.  A version that already has a different
\* value is not overwritten (ResourceExistsException).
PutSecretValue(st, pl, token, dict, labels) ==
    IF pl[token] # NoPayload /\ pl[token] # dict
    THEN [err |-> "ResourceExistsException", stages |-> st, payload |-> pl]
    ELSE [err |-> "none",
          stages |-> [t \in Tokens |->
                        IF t = token THEN st[t] \cup labels ELSE st[t] \ labels],
          payload |-> [pl EXCEPT ![token] = dict]]

\* update_secret_version_stage(VersionStage="AWSCURRENT", MoveToVersionId,
\* RemoveFromVersionId): the label moves, and the service attaches
\* AWSPREVIOUS to the version AWSCURRENT was removed from.  dropPending is
\* the service's choice to detach AWSPENDING from the version that became
\* current.  RemoveFromVersionId must be the version that has the label.
UpdateSecretVersionStage(st, to, from, dropPending) ==
    IF from = NoToken \/ "AWSCURRENT" \notin st[from]
    THEN [err |-> "InvalidParameterException", stages |-> st]
    ELSE [err |-> "none",
          stages |-> [t \in Tokens |->
                        IF t = to
                        THEN ((st[t] \cup {"AWSCURRENT"}) \ {"AWSPREVIOUS"})
                               \ (IF dropPending THEN {"AWSPENDING"} ELSE {})
                        ELSE IF t = from
                             THEN (st[t] \ {"AWSCURRENT"}) \cup {"AWSPREVIOUS"}
                             ELSE st[t] \ {"AWSPREVIOUS"}]]

\* ----------------------------------------------------------- the database
\* db maps each existing user name to its password and its privileges.
Grants == {"USAGE", "SELECT", "SELECT_UPTODATE"}
\* The order SHOW GRANTS lists them in: the global one, then those on
\* databases.
GrantOrder == <<"USAGE", "SELECT_UPTODATE", "SELECT">>

\* The privilege clause of a grant, word by word; SELECT_UPTODATE is on a
\* database whose name, "up TO date", has the word TO in it (the square
\* brackets stand for the backquotes the server puts around such a name).
Clause(g) ==
    CASE g = "USAGE" -> <<"GRANT", "USAGE", "ON", "*.*">>
      [] g = "SELECT" -> <<"GRANT", "SELECT", "ON", "app.*">>
      [] g = "SELECT_UPTODATE" ->
            <<"GRANT", "SELECT", "ON", "[up", "TO", "date].*">>

\* One row of SHOW GRANTS FOR user: the clause, TO, and the account.
GrantRow(g) == Clause(g) \o <<"TO", "'user'@'%'">>

\* cur.execute("SHOW GRANTS FOR %s", user); cur.fetchall()
RECURSIVE RowsFrom(_, _)
RowsFrom(held, i) ==
    IF i > Len(GrantOrder)
    THEN <<>>
    ELSE (IF GrantOrder[i] \in held THEN <<GrantRow(GrantOrder[i])>> ELSE <<>>)
           \o RowsFrom(held, i + 1)

ShowGrants(db, user) == RowsFrom(db[user].grants, 1)

\* row[0].split(' TO ')[0]: the words before the first TO (all of them when
\* there is none).
RECURSIVE FirstTo(_, _)
FirstTo(row, i) ==
    IF i > Len(row) THEN i
    ELSE IF row[i] = "TO" THEN i ELSE FirstTo(row, i + 1)

SplitTo(row) == SubSeq(row, 1, FirstTo(row, 1) - 1)

\* The server executing "<clause> TO %s IDENTIFIED BY %s" with (user,
\* password): a well-formed clause creates the user if absent, sets the
\* password and adds the privilege; anything else is a syntax error.
ExecGrant(db, clause, user, password) ==
    IF \E g \in Grants : Clause(g) = clause
    THEN LET g == CHOOSE g \in Grants : Clause(g) = clause
             old == IF user \in DOMAIN db THEN db[user].grants ELSE {}
         IN  [err |-> FALSE,
              db |-> [u \in DOMAIN db \cup {user} |->
                        IF u = user
                        THEN [password |-> password, grants |-> old \cup {g}]
                        ELSE db[u]]]
    ELSE [err |-> TRUE, db |-> db]

\* get_connection: pymysql.connect succeeds (TRUE) or raises
\* OperationalError, which becomes None (FALSE).
GetConnection(db, secret_dict) ==
    /\ secret_dict.host \in DbHosts
    /\ secret_dict.port = DefaultPort
    /\ secret_dict.username \in DOMAIN db
    /\ db[secret_dict.username].password = secret_dict.password

\* ------------------------------------------------------------ RDS inventory
\* describe_db_instances(DBInstanceIdentifier=id)['DBInstances'] when the
\* call does not fail: rds is the inventory's entry for db2, db1 is a
\* primary, and no other instance is known.
NoSource == <<>>
DescribeDbInstances(rds, id) ==
    IF id = InstanceId(Db2) THEN rds
    ELSE IF id = InstanceId(Db1)
         THEN <<[ReadReplicaSourceDBInstanceIdentifier |-> NoSource]>>
         ELSE <<>>

\* An is_rds_replica_database that is content with finding the instance.
IsRdsReplicaDatabaseAnyInstance(rds, replica_dict, master_dict, lookupFails) ==
    LET instances == DescribeDbInstances(rds, InstanceId(replica_dict.host))
    IN  ~lookupFails /\ instances # <<>>

\* An is_rds_replica_database that takes a failed lookup for a yes.
IsRdsReplicaDatabaseFailOpen(rds, replica_dict, master_dict, lookupFails) ==
    LET instances == DescribeDbInstances(rds, InstanceId(replica_dict.host))
    IN  IF lookupFails \/ instances = <<>> THEN TRUE
        ELSE InstanceId(master_dict.host)
               = instances[1].ReadReplicaSourceDBInstanceIdentifier

\* is_rds_replica_database(replica_dict, master_dict); lookupFails is the
\* describe_db_instances call raising.
IsRdsReplicaDatabase(rds, replica_dict, master_dict, lookupFails) ==
    LET replica_instance_id == InstanceId(replica_dict.host)
        master_instance_id == InstanceId(master_dict.host)
        instances == DescribeDbInstances(rds, replica_instance_id)
    IN  IF lookupFails THEN FALSE
        ELSE IF instances = <<>> THEN FALSE
             ELSE master_instance_id
                    = instances[1].ReadReplicaSourceDBInstanceIdentifier

\* --------------------------------------------------------------- handlers
\* What an invocation did: calls of put_secret_value (puts),
\* update_secret_version_stage (moves) and get_random_password (gens),
\* calls of get_connection (logins), connections obtained (opened) and
\* closed, statements sent on the master connection that change users
\* (execs), the probe of test_secret (probes), and commits.
NoEff ==
    [puts |-> 0, moves |-> 0, gens |-> 0, logins |-> 0, opened |-> 0,
     closed |-> 0, execs |-> 0, probes |-> 0, commits |-> 0]

\* The result of a handler: how it ended ("ok" or the error raised) and the
\* store and database it leaves.
Outcome(result, st, pl, db, eff) ==
    [result |-> result, stages |-> st, payload |-> pl, db |-> db, eff |-> eff]

\* A create_secret that stores the CURRENT username with the new password.
CreateSecretKeepsUsername(st, pl, db, token, passwd) ==
    LET current == GetSecretDict(st, pl, "AWSCURRENT", NoToken)
        pending == GetSecretDict(st, pl, "AWSPENDING", token)
        alt == GetAltUsername(current.dict.username)
        new == [current.dict EXCEPT !.password = passwd]
        put == PutSecretValue(st, pl, token, new, {"AWSPENDING"})
    IN  IF current.err # "none"
        THEN Outcome(current.err, st, pl, db, NoEff)
        ELSE IF pending.err = "none"
        THEN Outcome("ok", st, pl, db, NoEff)
        ELSE IF pending.err # "ResourceNotFoundException"
        THEN Outcome(pending.err, st, pl, db, NoEff)
        ELSE IF alt.err
        THEN Outcome("UsernameTooLongError", st, pl, db, NoEff)
        ELSE IF put.err # "none"
        THEN Outcome(put.err, st, pl, db, [NoEff EXCEPT !.gens = 1])
        ELSE Outcome("ok", put.stages, put.payload, db,
                     [NoEff EXCEPT !.gens = 1, !.puts = 1])

\* A create_secret that asks for the password before it resolves the name.
CreateSecretGeneratesFirst(st, pl, db, token, passwd) ==
    LET current == GetSecretDict(st, pl, "AWSCURRENT", NoToken)
        pending == GetSecretDict(st, pl, "AWSPENDING", token)
        alt == GetAltUsername(current.dict.username)
        new == [current.dict EXCEPT !.username = alt.name, !.password = passwd]
        put == PutSecretValue(st, pl, token, new, {"AWSPENDING"})
    IN  IF current.err # "none"
        THEN Outcome(current.err, st, pl, db, NoEff)
        ELSE IF pending.err = "none"
        THEN Outcome("ok", st, pl, db, NoEff)
        ELSE IF pending.err # "ResourceNotFoundException"
        THEN Outcome(pending.err, st, pl, db, NoEff)
        ELSE IF alt.err
        THEN Outcome("UsernameTooLongError", st, pl, db,
                     [NoEff EXCEPT !.gens = 1])
        ELSE IF put.err # "none"
        THEN Outcome(put.err, st, pl, db, [NoEff EXCEPT !.gens = 1])
        ELSE Outcome("ok", put.stages, put.payload, db,
                     [NoEff EXCEPT !.gens = 1, !.puts = 1])

\* A create_secret that does not look for an AWSPENDING record first.
CreateSecretAlwaysPuts(st, pl, db, token, passwd) ==
    LET current == GetSecretDict(st, pl, "AWSCURRENT", NoToken)
        alt == GetAltUsername(current.dict.username)
        new == [current.dict EXCEPT !.username = alt.name, !.password = passwd]
        put == PutSecretValue(st, pl, token, new, {"AWSPENDING"})
    IN  IF current.err # "none"
        THEN Outcome(current.err, st, pl, db, NoEff)
        ELSE IF alt.err
        THEN Outcome("UsernameTooLongError", st, pl, db, NoEff)
        ELSE IF put.err # "none"
        THEN Outcome(put.err, st, pl, db, [NoEff EXCEPT !.gens = 1])
        ELSE Outcome("ok", put.stages, put.payload, db,
                     [NoEff EXCEPT !.gens = 1, !.puts = 1])

\* create_secret(service_client, arn, token); passwd is what
\* get_random_password returns if it is called.
CreateSecret(st, pl, db, token, passwd) ==
    LET current == GetSecretDict(st, pl, "AWSCURRENT", NoToken)
        pending == GetSecretDict(st, pl, "AWSPENDING", token)
    IN  IF current.err # "none"
        THEN Outcome(current.err, st, pl, db, NoEff)
        ELSE IF pending.err = "none"
        THEN Outcome("ok", st, pl, db, NoEff)
        ELSE IF pending.err # "ResourceNotFoundException"
        THEN Outcome(pending.err, st, pl, db, NoEff)
        ELSE LET alt == GetAltUsername(current.dict.username)
             IN  IF alt.err
                 THEN Outcome("UsernameTooLongError", st, pl, db, NoEff)
                 ELSE LET new == [current.dict EXCEPT !.username = alt.name,
                                                      !.password = passwd]
                          put == PutSecretValue(st, pl, token, new, {"AWSPENDING"})
                      IN  IF put.err # "none"
                          THEN Outcome(put.err, st, pl, db,
                                       [NoEff EXCEPT !.gens = 1])
                          ELSE Outcome("ok", put.stages, put.payload, db,
                                       [NoEff EXCEPT !.gens = 1, !.puts = 1])

\* A grant loop that goes on to the next row when a statement fails.
RECURSIVE ExecRowsSkipFailed(_, _, _, _, _)
ExecRowsSkipFailed(db, rows, i, user, password) ==
    IF i > Len(rows)
    THEN [err |-> FALSE, db |-> db, execs |-> i - 1]
    ELSE LET r == ExecGrant(db, SplitTo(rows[i]), user, password)
         IN  ExecRowsSkipFailed(r.db, rows, i + 1, user, password)

\* The loop of set_secret over the rows of SHOW GRANTS, from row i on: each
\* row is split and executed for (user, password); the first statement that
\* fails ends it.  execs counts the statements sent.
RECURSIVE ExecRows(_, _, _, _, _)
ExecRows(db, rows, i, user, password) ==
    IF i > Len(rows)
    THEN [err |-> FALSE, db |-> db, execs |-> i - 1]
    ELSE LET r == ExecGrant(db, SplitTo(rows[i]), user, password)
         IN  IF r.err
             THEN [err |-> TRUE, db |-> db, execs |-> i]
             ELSE ExecRows(r.db, rows, i + 1, user, password)

\* A set_secret that passes the current username to the grant statements.
GrantParamsCurrentUser(current_dict, pending_dict) ==
    <<current_dict.username, pending_dict.password>>

\* The parameters set_secret binds to each rewritten grant: the account the
\* statement is for and its password.
GrantParams(current_dict, pending_dict) ==
    <<pending_dict.username, pending_dict.password>>

\* A set_secret that does not try the CURRENT login before it turns to the
\* master secret.
SetSecretSkipsCurrentLogin(st, pl, db, ms, rds, token, lookupFails) ==
    LET current == GetSecretDict(st, pl, "AWSCURRENT", NoToken)
        pending == GetSecretDict(st, pl, "AWSPENDING", token)
        one == [NoEff EXCEPT !.logins = 1]
        three == [NoEff EXCEPT !.logins = 3]
    IN  IF current.err # "none"
        THEN Outcome(current.err, st, pl, db, NoEff)
        ELSE IF pending.err # "none"
        THEN Outcome(pending.err, st, pl, db, NoEff)
        ELSE IF GetConnection(db, pending.dict)
        THEN Outcome("ok", st, pl, db, [one EXCEPT !.opened = 1, !.closed = 1])
        ELSE IF GetAltUsername(current.dict.username).err
        THEN Outcome("UsernameTooLongError", st, pl, db, one)
        ELSE IF GetAltUsername(current.dict.username).name # pending.dict.username
        THEN Outcome("IdentityMismatchError", st, pl, db, one)
        ELSE IF current.dict.host # pending.dict.host
        THEN Outcome("HostMismatchError", st, pl, db, one)
        ELSE LET master == GetMasterDict(ms)
             IN  IF master.err # "none"
                 THEN Outcome(master.err, st, pl, db, one)
                 ELSE IF /\ current.dict.host # master.dict.host
                         /\ ~IsRdsReplicaDatabase(rds, current.dict, master.dict,
                                                  lookupFails)
                 THEN Outcome("UntrustedHostError", st, pl, db, one)
                 ELSE IF ~GetConnection(db, master.dict)
                 THEN Outcome("MasterCredentialInvalidError", st, pl, db, three)
                 ELSE IF current.dict.username \notin DOMAIN db
                 THEN Outcome("ProgrammingError", st, pl, db,
                              [three EXCEPT !.opened = 1, !.closed = 1])
                 ELSE LET rows == ShowGrants(db, current.dict.username)
                          params == GrantParams(current.dict, pending.dict)
                          run == ExecRows(db, rows, 1, params[1], params[2])
                          open == [three EXCEPT !.opened = 1, !.closed = 1,
                                                !.execs = run.execs]
                      IN  IF run.err
                          THEN Outcome("ProgrammingError", st, pl, db, open)
                          ELSE Outcome("ok", st, pl, run.db,
                                       [open EXCEPT !.commits = 1])

\* set_secret(service_client, arn, token).  The statements of one
\* invocation take effect at conn.commit(); closing the connection without
\* a commit leaves the database as it was.
SetSecret(st, pl, db, ms, rds, token, lookupFails) ==
    LET current == GetSecretDict(st, pl, "AWSCURRENT", NoToken)
        pending == GetSecretDict(st, pl, "AWSPENDING", token)
        one == [NoEff EXCEPT !.logins = 1]
        two == [NoEff EXCEPT !.logins = 2]
        twoOpen == [two EXCEPT !.opened = 1, !.closed = 1]
        three == [twoOpen EXCEPT !.logins = 3]
    IN  IF current.err # "none"
        THEN Outcome(current.err, st, pl, db, NoEff)
        ELSE IF pending.err # "none"
        THEN Outcome(pending.err, st, pl, db, NoEff)
        ELSE IF GetConnection(db, pending.dict)
        THEN Outcome("ok", st, pl, db, [one EXCEPT !.opened = 1, !.closed = 1])
        ELSE IF GetAltUsername(current.dict.username).err
        THEN Outcome("UsernameTooLongError", st, pl, db, one)
        ELSE IF GetAltUsername(current.dict.username).name # pending.dict.username
        THEN Outcome("IdentityMismatchError", st, pl, db, one)
        ELSE IF current.dict.host # pending.dict.host
        THEN Outcome("HostMismatchError", st, pl, db, one)
        ELSE IF ~GetConnection(db, current.dict)
        THEN Outcome("CurrentCredentialInvalidError", st, pl, db, two)
        ELSE LET master == GetMasterDict(ms)
             IN  IF master.err # "none"
                 THEN Outcome(master.err, st, pl, db, twoOpen)
                 ELSE IF /\ current.dict.host # master.dict.host
                         /\ ~IsRdsReplicaDatabase(rds, current.dict, master.dict,
                                                  lookupFails)
                 THEN Outcome("UntrustedHostError", st, pl, db, twoOpen)
                 ELSE IF ~GetConnection(db, master.dict)
                 THEN Outcome("MasterCredentialInvalidError", st, pl, db, three)
                 ELSE LET rows == ShowGrants(db, current.dict.username)
                          params == GrantParams(current.dict, pending.dict)
                          run == ExecRows(db, rows, 1, params[1], params[2])
                          open == [three EXCEPT !.opened = 2, !.closed = 2,
                                                !.execs = run.execs]
                      IN  IF run.err
                          THEN Outcome("ProgrammingError", st, pl, db, open)
                          ELSE Outcome("ok", st, pl, run.db,
                                       [open EXCEPT !.commits = 1])

\* A test_secret that passes whenever there is a PENDING record.
TestSecretAlwaysOk(st, pl, db, token) ==
    LET pending == GetSecretDict(st, pl, "AWSPENDING", token)
    IN  IF pending.err # "none"
        THEN Outcome(pending.err, st, pl, db, NoEff)
        ELSE Outcome("ok", st, pl, db,
                     [NoEff EXCEPT !.logins = 1, !.opened = 1, !.closed = 1,
                                   !.probes = 1, !.commits = 1])

\* A test_secret that leaves its connection open.
TestSecretNoClose(st, pl, db, token) ==
    LET pending == GetSecretDict(st, pl, "AWSPENDING", token)
    IN  IF pending.err # "none"
        THEN Outcome(pending.err, st, pl, db, NoEff)
        ELSE IF GetConnection(db, pending.dict)
        THEN Outcome("ok", st, pl, db,
                     [NoEff EXCEPT !.logins = 1, !.opened = 1,
                                   !.probes = 1, !.commits = 1])
        ELSE Outcome("PendingCredentialInvalidError", st, pl, db,
                     [NoEff EXCEPT !.logins = 1])

\* test_secret(service_client, arn, token)
TestSecret(st, pl, db, token) ==
    LET pending == GetSecretDict(st, pl, "AWSPENDING", token)
    IN  IF pending.err # "none"
        THEN Outcome(pending.err, st, pl, db, NoEff)
        ELSE IF GetConnection(db, pending.dict)
        THEN Outcome("ok", st, pl, db,
                     [NoEff EXCEPT !.logins = 1, !.opened = 1, !.closed = 1,
                                   !.probes = 1, !.commits = 1])
        ELSE Outcome("PendingCredentialInvalidError", st, pl, db,
                     [NoEff EXCEPT !.logins = 1])

\* The version finish_secret finds labelled AWSCURRENT in
\* VersionIdsToStages, or NoToken (current_version = None).
CurrentVersion(st) ==
    IF \E t \in Tokens : "AWSCURRENT" \in st[t]
    THEN CHOOSE t \in Tokens : "AWSCURRENT" \in st[t]
    ELSE NoToken

\* A finish_secret without the test for the token being current already.
FinishSecretNoCheck(st, pl, db, token, dropPending) ==
    LET upd == UpdateSecretVersionStage(st, token, CurrentVersion(st), dropPending)
    IN  IF upd.err # "none"
        THEN Outcome(upd.err, st, pl, db, NoEff)
        ELSE Outcome("ok", upd.stages, pl, db, [NoEff EXCEPT !.moves = 1])

\* finish_secret(service_client, arn, token)
FinishSecret(st, pl, db, token, dropPending) ==
    LET current_version == CurrentVersion(st)
    IN  IF current_version = token
        THEN Outcome("ok", st, pl, db, NoEff)
        ELSE LET upd == UpdateSecretVersionStage(st, token, current_version,
                                                 dropPending)
             IN  IF upd.err # "none"
                 THEN Outcome(upd.err, st, pl, db, NoEff)
                 ELSE Outcome("ok", upd.stages, pl, db, [NoEff EXCEPT !.moves = 1])

\* A lambda_handler without the AWSCURRENT test.
GateNoCurrentCheck(enabled, st, token, step) ==
    IF enabled = "false" THEN "RotationNotEnabledError"
    ELSE IF st[token] = {} THEN "UnknownTokenError"
    ELSE IF "AWSPENDING" \notin st[token] THEN "StageMismatchError"
    ELSE IF step \notin Steps THEN "InvalidStepError"
    ELSE "dispatch"

\* A lambda_handler that looks at the step before the stages.
GateStepFirst(enabled, st, token, step) ==
    IF step \notin Steps THEN "InvalidStepError"
    ELSE IF enabled = "false" THEN "RotationNotEnabledError"
    ELSE IF st[token] = {} THEN "UnknownTokenError"
    ELSE IF "AWSCURRENT" \in st[token] THEN "return"
    ELSE IF "AWSPENDING" \notin st[token] THEN "StageMismatchError"
    ELSE "dispatch"

\* ------------------------------------------------------------ coordinator
\* The checks of lambda_handler before the step is called: the error
\* raised, "return" for the early return, or "dispatch".  enabled is
\* metadata's RotationEnabled: "true", "false", or "absent" for no such key.
Gate(enabled, st, token, step) ==
    IF enabled = "false" THEN "RotationNotEnabledError"
    ELSE IF st[token] = {} THEN "UnknownTokenError"
    ELSE IF "AWSCURRENT" \in st[token] THEN "return"
    ELSE IF "AWSPENDING" \notin st[token] THEN "StageMismatchError"
    ELSE IF step \notin Steps THEN "InvalidStepError"
    ELSE "dispatch"

\* The step called by lambda_handler once the checks passed.
Dispatch(step, st, pl, db, ms, rds, token, passwd, lookupFails, dropPending) ==
    CASE step = "createSecret" -> CreateSecret(st, pl, db, token, passwd)
      [] step = "setSecret" -> SetSecret(st, pl, db, ms, rds, token, lookupFails)
      [] step = "testSecret" -> TestSecret(st, pl, db, token)
      [] step = "finishSecret" -> FinishSecret(st, pl, db, token, dropPending)

\* ------------------------------------------------------------------ state
VARIABLES
    rotationEnabled,  \* RotationEnabled of describe_secret: "true", "false", "absent"
    stages,           \* VersionIdsToStages: token -> set of staging labels
    payload,          \* token -> the version's SecretString, or NoPayload
    masterSecret,     \* the AWSCURRENT payload of the secret named by masterarn
    dbUsers,          \* the database: user name -> [password, grants]
    rdsDb2,           \* DBInstances the inventory returns for instance db2
    last,             \* the invocation that has just ended, until its result
                      \* is taken: step, token, result, the handler called,
                      \* again (the step had succeeded for the token before),
                      \* lookupFails (the inventory call fails if made)
                      \* and eff, what it did
    succeeded,        \* <<step, token>> of every handler that returned normally
    rot,              \* the rotation in progress, as started by the service
    altIn,            \* get_alt_username alone: the input ...
    altOut,           \* ... and what it returned, applied to it and again
                      \* to what it returned
    inv               \* two overlapping invocations of createSecret for
                      \* one token: where each is, what it read, its
                      \* password, its result and whether its put stored

vars == <<rotationEnabled, stages, payload, masterSecret, dbUsers, rdsDb2,
          last, succeeded, rot, altIn, altOut, inv>>

\* No invocation of the two has begun.
NoRace ==
    [i \in 1..2 |-> [pc |-> "idle", current |-> NoPayload, new |-> NoPayload,
                     result |-> "none", stored |-> FALSE]]

NoInvocation ==
    [step |-> "none", token |-> NoToken, result |-> "none", handler |-> "none",
     again |-> FALSE, lookupFails |-> FALSE, eff |-> NoEff]

NoRotation ==
    [tok |-> NoToken, prev |-> NoToken, n |-> -1, allOk |-> TRUE,
     tested |-> FALSE, early |-> FALSE, curValid |-> FALSE, fresh |-> FALSE]


\* The order in which the service invokes the steps of one rotation.
StepOrder == <<"createSecret", "setSecret", "testSecret", "finishSecret">>

\* The AWSCURRENT payload and whether it logs in.
CurrentDict == payload[CurrentVersion(stages)]
CurrentLoginValid ==
    /\ CurrentVersion(stages) # NoToken
    /\ CurrentDict # NoPayload
    /\ GetConnection(dbUsers, CurrentDict)

\* get_random_password returns a password nobody uses yet.  Passwords are
\* only ever compared for equality, so the least unused one stands for any.
UnusedPasswords ==
    Passwords \ ({payload[t].password : t \in {x \in Tokens : payload[x] # NoPayload}}
                   \cup {dbUsers[u].password : u \in DOMAIN dbUsers}
                   \cup {masterSecret.password})
RandomPasswords ==
    {p \in UnusedPasswords : \A q \in UnusedPasswords : p <= q}

\* The inventory's answers for instance db2: unknown, a primary, a replica
\* of db1, a replica of db3.
RdsAnswers ==
    {<<>>,
     <<[ReadReplicaSourceDBInstanceIdentifier |-> NoSource]>>,
     <<[ReadReplicaSourceDBInstanceIdentifier |-> InstanceId(Db1)]>>,
     <<[ReadReplicaSourceDBInstanceIdentifier |-> InstanceId(Db3)]>>}

\* The secrets the model starts from.  One is the plain one: rotation
\* enabled, user app_user on the primary db1, working CURRENT and master
\* credentials.  The others vary it: the user (app_user_clone,
\* app_user_clone_clone, or a name of 75 characters), the privileges held, a CURRENT or master password the
\* database does not accept, the replica endpoint db2.eu with each answer
\* of the inventory, rotation disabled or RotationEnabled absent.
Setups ==
    LET all == [enabled : {"true", "false", "absent"},
                user : {AppUser, AppUserClone, AppUserCloneClone, LongUser},
                host : {Db1, Db2},
                rds : RdsAnswers,
                curValid : BOOLEAN,
                masterValid : BOOLEAN,
                held : SUBSET {"SELECT", "SELECT_UPTODATE"}]
        plainButUser(s) == /\ s.host = Db1 /\ s.curValid /\ s.masterValid
                           /\ s.held = {"SELECT"}
    IN  {s \in all :
           /\ s.host = Db1 => s.rds = <<>>
           /\ s.host = Db2 => s.curValid /\ s.held = {"SELECT"}
           /\ s.user \in {LongUser, AppUserCloneClone}
                => plainButUser(s) /\ s.enabled = "true"
           /\ s.enabled # "true" => plainButUser(s) /\ s.user = AppUser}

\* A secret set up for rotation, no rotation in progress: version 1 is
\* AWSCURRENT and holds the credential of a user of the database (or a
\* password that user does not have); the master secret names the primary.
Init ==
    /\ \E s \in Setups :
         /\ rotationEnabled = s.enabled
         /\ rdsDb2 = s.rds
         /\ stages = [t \in Tokens |-> IF t = 1 THEN {"AWSCURRENT"} ELSE {}]
         /\ payload = [t \in Tokens |->
                         IF t = 1
                         THEN SecretDict(s.host, s.user,
                                         IF s.curValid THEN 2 ELSE BadPassword)
                         ELSE NoPayload]
         /\ masterSecret = SecretDict(Db1, MasterUser,
                                      IF s.masterValid THEN 1 ELSE BadPassword)
         /\ dbUsers = [u \in {MasterUser, s.user} |->
                         IF u = MasterUser
                         THEN [password |-> 1, grants |-> {"USAGE"}]
                         ELSE [password |-> 2, grants |-> s.held \cup {"USAGE"}]]
    /\ last = NoInvocation
    /\ succeeded = {}
    /\ rot = NoRotation
    /\ altIn = <<>>
    /\ altOut = <<>>
    /\ inv = NoRace

\* ---------------------------------------------------------------- actions
\* The secrets service starts a rotation: when AWSPENDING is on no version
\* other than the current one, it stages a new version id with AWSPENDING.
\* Request tokens are unique, so each rotation gets the next one.  The
\* version has no value yet, or one somebody put there: for another user,
\* or for another host.
PendingPayloads ==
    IF CurrentDict = NoPayload
    THEN {NoPayload}
    ELSE {NoPayload, SecretDict(CurrentDict.host, OtherUser, BadPassword)}
           \cup (IF GetAltUsername(CurrentDict.username).err
                 THEN {}
                 ELSE {SecretDict(Db3, GetAltUsername(CurrentDict.username).name,
                                  BadPassword)})

StartRotation(value) ==
    LET tok == IF rot.tok = NoToken THEN 2 ELSE rot.tok + 1
    IN  /\ last = NoInvocation
        /\ tok \in Tokens
        /\ \A t \in Tokens :
              "AWSPENDING" \in stages[t] => "AWSCURRENT" \in stages[t]
        /\ stages' = [t \in Tokens |->
                        IF t = tok THEN {"AWSPENDING"}
                        ELSE stages[t] \ {"AWSPENDING"}]
        /\ payload' = [payload EXCEPT ![tok] = value]
        /\ rot' = [tok |-> tok, prev |-> CurrentVersion(stages), n |-> 0,
                   allOk |-> TRUE, tested |-> FALSE, early |-> FALSE,
                   curValid |-> CurrentLoginValid,
                   fresh |-> value = NoPayload]
        /\ UNCHANGED <<rotationEnabled, masterSecret, dbUsers, rdsDb2,
                       last, succeeded, altIn, altOut, inv>>

\* rot after an invocation: n counts the steps of StepOrder invoked so far
\* for the rotation's token when nothing else was invoked since it started
\* (-1 otherwise), allOk that each returned normally; tested that
\* test_secret has passed for the token; early that finish_secret moved
\* AWSCURRENT to it before that.
RotAfter(step, token, g, out) ==
    LET inOrder == /\ rot.n \in 0..3
                   /\ token = rot.tok
                   /\ step = StepOrder[rot.n + 1]
        ran == g = "dispatch" /\ token = rot.tok
    IN  [rot EXCEPT
           !.n = IF inOrder THEN rot.n + 1 ELSE -1,
           !.allOk = IF inOrder THEN rot.allOk /\ out.result = "ok" ELSE FALSE,
           !.tested = rot.tested
                        \/ (ran /\ step = "testSecret" /\ out.result = "ok"),
           !.early = rot.early
                       \/ (ran /\ step = "finishSecret" /\ out.eff.moves > 0
                             /\ ~rot.tested)]

\* lambda_handler(event, context) with event = {SecretId, ClientRequestToken:
\* token, Step: step}, from its first line to its return or raise; last
\* holds what it did until the caller takes the result (Returned).  passwd, lookupFails and dropPending are what the
\* random password generator, the inventory call and the secrets service
\* do if the step gets to them.
Invocation(g, step, token, passwd, lookupFails, dropPending) ==
    LET out == IF g = "dispatch"
               THEN Dispatch(step, stages, payload, dbUsers, masterSecret,
                             rdsDb2, token, passwd, lookupFails, dropPending)
               ELSE Outcome(IF g = "return" THEN "ok" ELSE g,
                            stages, payload, dbUsers, NoEff)
    IN  /\ last = NoInvocation
        /\ stages' = out.stages
        /\ payload' = out.payload
        /\ dbUsers' = out.db
        /\ last' = [step |-> step, token |-> token, result |-> out.result,
                    handler |-> IF g = "dispatch" THEN step ELSE "none",
                    again |-> <<step, token>> \in succeeded,
                    lookupFails |-> lookupFails,
                    eff |-> out.eff]
        /\ succeeded' = IF g = "dispatch" /\ out.result = "ok"
                        THEN succeeded \cup {<<step, token>>}
                        ELSE succeeded
        /\ rot' = RotAfter(step, token, g, out)
        /\ UNCHANGED <<rotationEnabled, masterSecret, rdsDb2, altIn, altOut, inv>>

LambdaHandler(step, token, passwd, lookupFails, dropPending) ==
    Invocation(Gate(rotationEnabled, stages, token, step),
               step, token, passwd, lookupFails, dropPending)

InvokeCreateSecret(token, passwd) ==
    LambdaHandler("createSecret", token, passwd, FALSE, FALSE)

InvokeSetSecret(token, lookupFails) ==
    LambdaHandler("setSecret", token, BadPassword, lookupFails, FALSE)

InvokeTestSecret(token) ==
    LambdaHandler("testSecret", token, BadPassword, FALSE, FALSE)

InvokeFinishSecret(token, dropPending) ==
    LambdaHandler("finishSecret", token, BadPassword, FALSE, dropPending)

InvokeOtherStep(token) ==
    LambdaHandler("rotateSecret", token, BadPassword, FALSE, FALSE)

\* The invocation's result (return or exception) reaches the caller.
Returned ==
    /\ last # NoInvocation
    /\ last' = NoInvocation
    /\ UNCHANGED <<rotationEnabled, stages, payload, masterSecret, dbUsers,
                   rdsDb2, succeeded, rot, altIn, altOut, inv>>

Next ==
    \/ Returned
    \/ \E value \in PendingPayloads : StartRotation(value)
    \/ \E token \in Tokens, passwd \in RandomPasswords :
          InvokeCreateSecret(token, passwd)
    \/ \E token \in Tokens, lookupFails \in BOOLEAN :
          InvokeSetSecret(token, lookupFails)
    \/ \E token \in Tokens : InvokeTestSecret(token)
    \/ \E token \in Tokens, dropPending \in BOOLEAN :
          InvokeFinishSecret(token, dropPending)
    \/ \E token \in Tokens : InvokeOtherStep(token)

Spec == Init /\ [][Next]_vars

\* get_alt_username on its own: the usernames it is given are a stem of
\* any length up to MaxStemLen followed by the clone suffix up to
\* MaxSuffixReps times.
RECURSIVE Suffixes(_)
Suffixes(k) == IF k = 0 THEN <<>> ELSE CloneSuffix \o Suffixes(k - 1)

AltInputs ==
    {Rep("a", n) \o Suffixes(k) : n \in 0..MaxStemLen, k \in 0..MaxSuffixReps}

InitAlt ==
    /\ altIn \in AltInputs
    /\ altOut = <<>>
    /\ inv = NoRace
    /\ rotationEnabled = "true"
    /\ rdsDb2 = NoSource
    /\ stages = [t \in Tokens |-> IF t = 1 THEN {"AWSCURRENT"} ELSE {}]
    /\ payload = [t \in Tokens |->
                    IF t = 1 THEN SecretDict(Db1, altIn, 2) ELSE NoPayload]
    /\ masterSecret = SecretDict(Db1, MasterUser, 1)
    /\ dbUsers = [u \in {MasterUser} |-> [password |-> 1, grants |-> {"USAGE"}]]
    /\ last = NoInvocation
    /\ succeeded = {}
    /\ rot = NoRotation

\* new_username = get_alt_username(current_username), first of the
\* username given and then of the username that returned.
ApplyAlt ==
    /\ Len(altOut) < 2
    /\ altOut # <<>> => ~altOut[Len(altOut)].err
    /\ altOut' = Append(altOut,
                        GetAltUsername(IF altOut = <<>> THEN altIn
                                       ELSE altOut[Len(altOut)].name))
    /\ UNCHANGED <<rotationEnabled, stages, payload, masterSecret, dbUsers,
                   rdsDb2, last, succeeded, rot, altIn, inv>>

NextAlt == ApplyAlt

SpecAlt == InitAlt /\ [][NextAlt]_vars

\* Two invocations of createSecret for the token of the rotation in
\* progress, each running lambda_handler's checks and create_secret one call
\* to the secrets service after another, in any interleaving.  CreateCheck
\* is describe_secret and the two get_secret_value calls, the last of them
\* the look for an AWSPENDING record at the token.
CreateCheck(i) ==
    LET token == rot.tok
        g == Gate(rotationEnabled, stages, token, "createSecret")
        current == GetSecretDict(stages, payload, "AWSCURRENT", NoToken)
        pending == GetSecretDict(stages, payload, "AWSPENDING", token)
        done(result) == [inv EXCEPT ![i].pc = "done", ![i].result = result]
    IN  /\ rot.tok # NoToken
        /\ inv[i].pc = "idle"
        /\ inv' = IF g # "dispatch"
                  THEN done(IF g = "return" THEN "ok" ELSE g)
                  ELSE IF current.err # "none" THEN done(current.err)
                  ELSE IF pending.err = "none" THEN done("ok")
                  ELSE IF pending.err # "ResourceNotFoundException"
                  THEN done(pending.err)
                  ELSE [inv EXCEPT ![i].pc = "generate",
                                   ![i].current = current.dict]
        /\ UNCHANGED <<rotationEnabled, stages, payload, masterSecret, dbUsers,
                       rdsDb2, last, succeeded, rot, altIn, altOut>>

\* get_alt_username and get_random_password: a password nobody has, the
\* other invocation included.
CreateGenerate(i, passwd) ==
    LET alt == GetAltUsername(inv[i].current.username)
        taken == {inv[j].new.password : j \in {k \in 1..2 : inv[k].new # NoPayload}}
    IN  /\ inv[i].pc = "generate"
        /\ passwd \in UnusedPasswords \ taken
        /\ inv' = IF alt.err
                  THEN [inv EXCEPT ![i].pc = "done",
                                   ![i].result = "UsernameTooLongError"]
                  ELSE [inv EXCEPT ![i].pc = "put",
                                   ![i].new = [inv[i].current EXCEPT
                                                 !.username = alt.name,
                                                 !.password = passwd]]
        /\ UNCHANGED <<rotationEnabled, stages, payload, masterSecret, dbUsers,
                       rdsDb2, last, succeeded, rot, altIn, altOut>>

\* put_secret_value at the token.
CreatePut(i) ==
    LET put == PutSecretValue(stages, payload, rot.tok, inv[i].new, {"AWSPENDING"})
    IN  /\ inv[i].pc = "put"
        /\ stages' = put.stages
        /\ payload' = put.payload
        /\ inv' = [inv EXCEPT ![i].pc = "done",
                              ![i].result = IF put.err = "none" THEN "ok"
                                            ELSE put.err,
                              ![i].stored = put.err = "none"]
        /\ UNCHANGED <<rotationEnabled, masterSecret, dbUsers, rdsDb2, last,
                       succeeded, rot, altIn, altOut>>

NextRace ==
    \/ \E value \in PendingPayloads : StartRotation(value)
    \/ \E i \in 1..2 : CreateCheck(i)
    \/ \E i \in 1..2, passwd \in Passwords : CreateGenerate(i, passwd)
    \/ \E i \in 1..2 : CreatePut(i)

SpecRace == Init /\ [][NextRace]_vars

\* Invocations of one step for one token may overlap (the caller retries):
\* the body of finish_secret then runs in a later state than the one the
\* checks of its invocation saw.  Here it runs for the token of the
\* rotation in progress, which carried AWSPENDING and not AWSCURRENT when
\* the rotation started, so that the checks passed then.
FinishSecretLate(dropPending) ==
    /\ rot.tok # NoToken
    /\ rotationEnabled # "false"
    /\ Invocation("dispatch", "finishSecret", rot.tok, BadPassword, FALSE,
                  dropPending)

NextOverlap ==
    \/ Next
    \/ \E dropPending \in BOOLEAN : FinishSecretLate(dropPending)

SpecOverlap == Init /\ [][NextOverlap]_vars

\* The staging labels as the secrets service keeps them: AWSCURRENT is on
\* exactly one version, every other label on at most one.
TypeOK ==
    /\ Cardinality({t \in Tokens : "AWSCURRENT" \in stages[t]}) = 1
    /\ \A l \in Labels : Cardinality({t \in Tokens : l \in stages[t]}) <= 1

\* ================================================================= claims
\* A step of the specification that is an invocation of lambda_handler:
\* last' describes it, the unprimed variables are the state it started in.
Invoked == last = NoInvocation /\ last' # NoInvocation

\* The invocation called no step, made no call that writes to the secret
\* store, opened no database connection, and left store and database as
\* they were.
NoSideEffects ==
    /\ last'.handler = "none"
    /\ last'.eff = NoEff
    /\ UNCHANGED <<stages, payload, dbUsers>>

\* C1 as stated: whatever the step, an invocation whose token's version
\* carries AWSCURRENT returns normally and has no side effects.
C1_AsStated ==
    [][(Invoked /\ "AWSCURRENT" \in stages[last'.token])
         => (last'.result = "ok" /\ NoSideEffects)]_vars

\* C1: unless rotation is explicitly disabled, an invocation whose
\* token's version carries AWSCURRENT (with or without AWSPENDING) returns
\* normally, whatever the step, and has no side effects; when rotation is
\* disabled it raises, still without side effects.
C1_CurrentTokenIsNoOp ==
    [][(Invoked /\ "AWSCURRENT" \in stages[last'.token])
         => /\ NoSideEffects
            /\ last'.result = IF rotationEnabled = "false"
                              THEN "RotationNotEnabledError" ELSE "ok"]_vars

\* C1's case: an unrecognized step, invoked for a version that carries both
\* AWSCURRENT and AWSPENDING, has returned normally.
C1_Witness ==
    /\ last.step = "rotateSecret"
    /\ last.result = "ok"
    /\ {"AWSCURRENT", "AWSPENDING"} \subseteq stages[last.token]

\* C2: the checks of the coordinator come before every step, in this
\* order: rotation disabled, token without stages, (token not current)
\* token not pending, step unknown.  Each failure raises its own error
\* with no side effects, and a step is called only when all four pass, and
\* it is then the step named.
C2_GatePrecedence ==
    [][Invoked =>
         LET tok == last'.token
             res == last'.result
         IN  /\ rotationEnabled = "false"
                  => res = "RotationNotEnabledError" /\ NoSideEffects
             /\ rotationEnabled # "false" /\ stages[tok] = {}
                  => res = "UnknownTokenError" /\ NoSideEffects
             /\ (/\ rotationEnabled # "false"
                 /\ stages[tok] # {}
                 /\ "AWSCURRENT" \notin stages[tok]
                 /\ "AWSPENDING" \notin stages[tok])
                  => res = "StageMismatchError" /\ NoSideEffects
             /\ (/\ rotationEnabled # "false"
                 /\ "AWSCURRENT" \notin stages[tok]
                 /\ "AWSPENDING" \in stages[tok]
                 /\ last'.step \notin Steps)
                  => res = "InvalidStepError" /\ NoSideEffects
             /\ last'.handler # "none"
                  => /\ rotationEnabled # "false"
                     /\ "AWSPENDING" \in stages[tok]
                     /\ last'.step \in Steps
                     /\ last'.handler = last'.step
             /\ (/\ rotationEnabled # "false"
                 /\ "AWSCURRENT" \notin stages[tok]
                 /\ "AWSPENDING" \in stages[tok]
                 /\ last'.step \in Steps)
                  => last'.handler = last'.step]_vars

\* C2's case: an invocation naming an unknown step for a pending version
\* got past the first three checks and failed at the fourth.
C2_Witness ==
    /\ last.result = "InvalidStepError"
    /\ last.handler = "none"
    /\ "AWSPENDING" \in stages[last.token]
    /\ rotationEnabled # "false"

\* The invocation wrote nothing: no put_secret_value, no label move, no
\* statement executed on the master connection, and store and database are
\* as they were.
NoWrites ==
    /\ last'.eff.puts = 0
    /\ last'.eff.moves = 0
    /\ last'.eff.execs = 0
    /\ UNCHANGED <<stages, payload, dbUsers>>

\* A step is invoked again for a token for which the same step has already
\* run to its end.
Reinvoked ==
    /\ Invoked
    /\ last'.step \in Steps
    /\ <<last'.step, last'.token>> \in succeeded

C4_AsStated ==
    (rot.tok # NoToken /\ rot.curValid /\ rot.fresh /\ CurrentDict # NoPayload)
      => GetConnection(dbUsers, CurrentDict)

\* C4: in every state of a rotation in which finishSecret has not
\* moved AWSCURRENT to the token before testSecret succeeded for it, the
\* AWSCURRENT credential logs in to the database if it did when the
\* rotation started.
C4_CurrentStaysValid ==
    (rot.tok # NoToken /\ rot.curValid /\ ~rot.early) => CurrentLoginValid

\* C4's case: set_secret has given the pending user its password,
\* test_secret has passed and finish_secret has moved AWSCURRENT to the
\* rotation's token.
C4_Witness ==
    /\ rot.tok # NoToken /\ rot.curValid /\ ~rot.early /\ rot.tested
    /\ "AWSCURRENT" \in stages[rot.tok]
    /\ last.handler = "finishSecret" /\ last.eff.moves = 1
    /\ CurrentLoginValid

\* The CURRENT and PENDING records set_secret reads, and the master's.
PendingAt(token) == GetSecretDict(stages, payload, "AWSPENDING", token)

\* The condition of C5 for an invocation of set_secret: the CURRENT host is
\* not the master's and the inventory does not say (the call failing, no
\* instance returned, or another source or none recorded) that it
\* replicates the master's instance.
HostUnconfirmed ==
    LET instances == DescribeDbInstances(rdsDb2, InstanceId(CurrentDict.host))
    IN  /\ CurrentDict.host # masterSecret.host
        /\ \/ last'.lookupFails
           \/ instances = <<>>
           \/ instances[1].ReadReplicaSourceDBInstanceIdentifier
                # InstanceId(masterSecret.host)

SetSecretCalled ==
    /\ Invoked
    /\ last'.handler = "setSecret"
    /\ CurrentDict # NoPayload

\* C5 as stated: set_secret raises UntrustedHostError and writes nothing to
\* the database whenever the CURRENT host is not the master's and is not
\* confirmed as its replica.  (Stated here for the invocations that find a
\* PENDING record at the token.)
C5_AsStated ==
    [][(SetSecretCalled /\ HostUnconfirmed /\ PendingAt(last'.token).err = "none")
         => /\ last'.result = "UntrustedHostError"
            /\ last'.eff.execs = 0 /\ dbUsers' = dbUsers]_vars

\* set_secret gets as far as the host check: there is a PENDING record, its
\* login fails, it is for the alternate user on the CURRENT host, and the
\* CURRENT login succeeds.
ReachesHostCheck ==
    LET pending == PendingAt(last'.token)
        alt == GetAltUsername(CurrentDict.username)
    IN  /\ pending.err = "none"
        /\ ~GetConnection(dbUsers, pending.dict)
        /\ ~alt.err /\ alt.name = pending.dict.username
        /\ CurrentDict.host = pending.dict.host
        /\ GetConnection(dbUsers, CurrentDict)

\* C5: whenever the CURRENT host is not the master's and is not
\* confirmed as its replica, set_secret writes nothing to the database,
\* and it raises UntrustedHostError if it gets as far as the host check
\* (an earlier check that ends the step comes first: the PENDING login
\* succeeding, IdentityMismatchError, HostMismatchError,
\* CurrentCredentialInvalidError).
C5_UntrustedHostWritesNothing ==
    [][(SetSecretCalled /\ HostUnconfirmed)
         => /\ last'.eff.execs = 0 /\ last'.eff.commits = 0
            /\ dbUsers' = dbUsers
            /\ last'.eff.logins <= 2
            /\ ReachesHostCheck => last'.result = "UntrustedHostError"]_vars

\* C5's case: the inventory lists db2 as a replica of db1, but the call
\* failed, and set_secret raised UntrustedHostError.
C5_Witness ==
    /\ last.handler = "setSecret"
    /\ last.result = "UntrustedHostError"
    /\ last.lookupFails
    /\ rdsDb2 # <<>>
    /\ rdsDb2[1].ReadReplicaSourceDBInstanceIdentifier = InstanceId(Db1)

\* C6: create_secret writes no payload but the one at its token: the
\* payload of every other version is the same after it, whether it
\* returns or raises.
C6_CreateWritesOnlyAtToken ==
    [][(Invoked /\ last'.step = "createSecret")
         => /\ \A t \in Tokens \ {last'.token} : payload'[t] = payload[t]
            /\ last'.eff.puts <= 1]_vars

\* C6's case: create_secret stored a payload at its token while two other
\* versions held theirs.
C6_Witness ==
    /\ last.handler = "createSecret"
    /\ last.eff.puts = 1
    /\ payload[last.token] # NoPayload
    /\ \A t \in Tokens \ {last.token} : payload[t] # NoPayload

\* C7: when a PENDING record exists at the token, create_secret returns
\* normally without generating a password and without a store write, and
\* the stored payload is the same before and after.
C7_CreateIdempotent ==
    [][(/\ Invoked
        /\ last'.handler = "createSecret"
        /\ PendingAt(last'.token).err = "none")
         => /\ last'.result = "ok"
            /\ last'.eff.gens = 0 /\ last'.eff.puts = 0
            /\ UNCHANGED <<stages, payload>>]_vars

\* C7's case: create_secret was called again after it had stored the
\* PENDING record, and returned normally.
C7_Witness ==
    /\ last.handler = "createSecret"
    /\ last.again
    /\ last.result = "ok"
    /\ last.eff.gens = 0
    /\ payload[last.token] # NoPayload
    /\ payload[last.token].password \in Passwords

\* C8: after finish_secret returns, exactly one version is labelled
\* AWSCURRENT, whatever versions there were, and it is the token's; and
\* when AWSCURRENT was on the token's version already, finish_secret makes
\* no store write.
C8_FinishLeavesOneCurrent ==
    [][(Invoked /\ last'.handler = "finishSecret" /\ last'.result = "ok")
         => /\ {t \in Tokens : "AWSCURRENT" \in stages'[t]} = {last'.token}
            /\ "AWSCURRENT" \in stages[last'.token]
                 => /\ last'.eff.moves = 0 /\ last'.eff.puts = 0
                    /\ UNCHANGED <<stages, payload>>]_vars

\* C8's case: finish_secret ran for a token whose version was already
\* AWSCURRENT, with two other versions in the table, and returned.
C8_Witness ==
    /\ last.handler = "finishSecret"
    /\ last.result = "ok"
    /\ last.eff.moves = 0
    /\ "AWSCURRENT" \in stages[last.token]
    /\ \A t \in Tokens : payload[t] # NoPayload

\* The rotation in progress began as C9 says: a CURRENT record for
\* app_user on db1 that logs in, no PENDING record yet, rotation enabled,
\* and a master secret for db1 whose login works.
C9_Start ==
    /\ rot.tok # NoToken /\ rot.prev # NoToken
    /\ rot.fresh /\ rot.curValid
    /\ rotationEnabled # "false"
    /\ payload[rot.prev].username = AppUser
    /\ payload[rot.prev].host = Db1
    /\ masterSecret.host = Db1
    /\ GetConnection(dbUsers, masterSecret)

\* The state C9 promises: a PENDING record for app_user_clone, that user in
\* the database with the record's password and every privilege app_user
\* has, AWSCURRENT on the token, AWSPREVIOUS on the version that was
\* current.
C9_End ==
    /\ payload[rot.tok] # NoPayload
    /\ payload[rot.tok].username = AppUserClone
    /\ AppUserClone \in DOMAIN dbUsers
    /\ dbUsers[AppUserClone].password = payload[rot.tok].password
    /\ dbUsers[AppUser].grants \subseteq dbUsers[AppUserClone].grants
    /\ "AWSCURRENT" \in stages[rot.tok]
    /\ "AWSPREVIOUS" \in stages[rot.prev]

\* C9 as stated: from such a start, createSecret, setSecret, testSecret and
\* finishSecret invoked in that order for the token all succeed and end in
\* that state.
C9_AsStated ==
    (C9_Start /\ rot.n = 4) => (rot.allOk /\ C9_End)

\* The same for users none of whose privileges is on an object with the
\* word TO in its name.
C9_PlainGrants ==
    (C9_Start /\ rot.n = 4 /\ "SELECT_UPTODATE" \notin dbUsers[AppUser].grants)
      => (rot.allOk /\ C9_End)

C9_PlainWitness ==
    C9_Start /\ rot.n = 4 /\ rot.allOk /\ C9_End

\* C10 as stated: whenever get_alt_username returns a username for u, it
\* returns u for that username.
C10_AsStated ==
    (Len(altOut) = 2 /\ ~altOut[1].err)
      => (~altOut[2].err /\ altOut[2].name = altIn)

\* C10: get_alt_username undoes itself on every username u of at most
\* MaxUsernameLen characters that does not end in the clone suffix twice
\* over: when it returns a username for u, it returns u for that username.
C10_InvolutionWithinLimit ==
    (/\ Len(altOut) = 2
     /\ ~altOut[1].err
     /\ Len(altIn) <= MaxUsernameLen
     /\ ~EndsWith(altIn, CloneSuffix \o CloneSuffix))
      => (~altOut[2].err /\ altOut[2].name = altIn)

\* C10's case: a username of exactly MaxUsernameLen characters ending in
\* the clone suffix came back after two applications.
C10_Witness ==
    /\ Len(altOut) = 2
    /\ ~altOut[1].err /\ ~altOut[2].err
    /\ Len(altIn) = MaxUsernameLen
    /\ EndsWith(altIn, CloneSuffix)
    /\ altOut[1].name # altIn
    /\ altOut[2].name = altIn

\* C11 as stated: get_alt_username raises for u exactly when u with the
\* suffix appended is longer than MaxUsernameLen, whether or not u ends
\* with the suffix.
C11_AsStated ==
    Len(altOut) >= 1
      => (altOut[1].err <=> Len(altIn) + Len(CloneSuffix) > MaxUsernameLen)

\* C11: get_alt_username raises for u exactly when u does not end with the
\* clone suffix and u with the suffix appended is longer than
\* MaxUsernameLen; for a u that ends with the suffix it returns u without
\* it, whatever the length.
C11_TooLongIffAppendedExceeds ==
    Len(altOut) >= 1
      => /\ altOut[1].err <=> /\ ~EndsWith(altIn, CloneSuffix)
                              /\ Len(altIn) + Len(CloneSuffix) > MaxUsernameLen
         /\ EndsWith(altIn, CloneSuffix)
              => altOut[1].name \o CloneSuffix = altIn

\* C11's case: get_alt_username raised for the shortest name that is too
\* long to take the suffix.
C11_Witness ==
    /\ Len(altOut) = 1
    /\ altOut[1].err
    /\ Len(altIn) + Len(CloneSuffix) = MaxUsernameLen + 1

\* create_secret gets as far as get_alt_username: there is a CURRENT record
\* and no AWSPENDING record at the token.
CreateResolvesName ==
    /\ Invoked
    /\ last'.handler = "createSecret"
    /\ CurrentDict # NoPayload
    /\ PendingAt(last'.token).err = "ResourceNotFoundException"

\* C12: when get_alt_username raises in create_secret, create_secret ends
\* with that error, get_random_password and put_secret_value have not been
\* called, and versions, payloads and labels are as before.
C12_TooLongCreatesNothing ==
    [][/\ (CreateResolvesName /\ GetAltUsername(CurrentDict.username).err)
            => last'.result = "UsernameTooLongError"
       /\ (Invoked /\ last'.handler = "createSecret"
             /\ last'.result = "UsernameTooLongError")
            => /\ last'.eff.gens = 0 /\ last'.eff.puts = 0
               /\ UNCHANGED <<stages, payload>>]_vars

\* C12's case: create_secret was called for a new token with a CURRENT
\* username too long to clone, and raised.
C12_Witness ==
    /\ last.handler = "createSecret"
    /\ last.result = "UsernameTooLongError"
    /\ CurrentDict.username = LongUser
    /\ payload[last.token] = NoPayload
    /\ "AWSPENDING" \in stages[last.token]

\* C13: every connection an invocation obtained from get_connection it
\* has closed when it ends, however it ends; at most one is open at a time
\* (set_secret obtains up to two, one after the other, test_secret one).
C13_ConnectionsClosed ==
    [][Invoked
         => /\ last'.eff.closed = last'.eff.opened
            /\ last'.eff.opened <= last'.eff.logins
            /\ last'.handler \in {"none", "createSecret", "finishSecret"}
                 => last'.eff.logins = 0]_vars

\* C13's case: set_secret, logged in with the master credential, had a
\* statement fail, and ended with both connections it had obtained closed.
C13_Witness ==
    /\ last.handler = "setSecret"
    /\ last.result = "ProgrammingError"
    /\ last.eff.opened = 2
    /\ last.eff.closed = 2

\* The rewritten statements of the rows of SHOW GRANTS for the CURRENT user
\* up to row n are all ones the server accepts.
StatementsValid(n) ==
    \A i \in 1..n :
       \E g \in Grants :
          Clause(g) = SplitTo(ShowGrants(dbUsers, CurrentDict.username)[i])

\* C14: set_secret commits at most once, and only when it has executed the
\* rewritten statement of every row and each was accepted; when one fails
\* there is no commit, set_secret raises, the database is as before and the
\* master connection is closed.
C14_NoPartialCommit ==
    [][(Invoked /\ last'.handler = "setSecret")
         => LET rows == ShowGrants(dbUsers, CurrentDict.username)
            IN  /\ last'.eff.commits <= 1
                /\ last'.eff.commits = 1
                     => /\ last'.result = "ok"
                        /\ last'.eff.execs = Len(rows)
                        /\ StatementsValid(Len(rows))
                /\ (last'.eff.execs > 0 /\ ~StatementsValid(Len(rows)))
                     => /\ last'.eff.commits = 0
                        /\ last'.result = "ProgrammingError"
                        /\ dbUsers' = dbUsers
                        /\ last'.eff.closed = last'.eff.opened]_vars

\* C14's case: the first statement of three was accepted, the second
\* failed, and set_secret ended without a commit.
C14_Witness ==
    /\ last.handler = "setSecret"
    /\ last.result = "ProgrammingError"
    /\ last.eff.execs = 2
    /\ last.eff.commits = 0
    /\ Len(ShowGrants(dbUsers, CurrentDict.username)) = 3
    /\ GetAltUsername(CurrentDict.username).name \notin DOMAIN dbUsers

\* C15 as stated: when the PENDING login has failed and the alternate of
\* the CURRENT username is not the PENDING username, set_secret raises
\* IdentityMismatchError.
C15_AsStated ==
    [][(SetSecretCalled /\ PendingAt(last'.token).err = "none")
         => LET pending == PendingAt(last'.token).dict
                alt == GetAltUsername(CurrentDict.username)
            IN  (/\ ~GetConnection(dbUsers, pending)
                 /\ ~(~alt.err /\ alt.name = pending.username))
                  => last'.result = "IdentityMismatchError"]_vars

\* C15: set_secret logs in with the master credential (its third login), and
\* executes statements, only in an invocation in which the PENDING login
\* failed, the PENDING username is the alternate of the CURRENT one, the
\* hosts are the same, the CURRENT login succeeded and the CURRENT host is
\* the master's or its confirmed replica.  The first of these that does not
\* hold ends the step: normally when the PENDING login succeeds, otherwise
\* with that check's error, or with UsernameTooLongError when the CURRENT
\* username has no alternate; then, and when the master login fails,
\* nothing is written to the database.
C15_MasterOnlyAfterChecks ==
    [][(SetSecretCalled /\ PendingAt(last'.token).err = "none")
         => LET pending == PendingAt(last'.token).dict
                alt == GetAltUsername(CurrentDict.username)
                c1 == ~GetConnection(dbUsers, pending)
                c2 == ~alt.err /\ alt.name = pending.username
                c3 == CurrentDict.host = pending.host
                c4 == GetConnection(dbUsers, CurrentDict)
                c5 == ~HostUnconfirmed
            IN  /\ (last'.eff.logins = 3 \/ last'.eff.execs > 0)
                     => c1 /\ c2 /\ c3 /\ c4 /\ c5
                /\ ~c1 => last'.result = "ok"
                /\ (c1 /\ alt.err) => last'.result = "UsernameTooLongError"
                /\ (c1 /\ ~alt.err /\ ~c2)
                     => last'.result = "IdentityMismatchError"
                /\ (c1 /\ c2 /\ ~c3) => last'.result = "HostMismatchError"
                /\ (c1 /\ c2 /\ c3 /\ ~c4)
                     => last'.result = "CurrentCredentialInvalidError"
                /\ (c1 /\ c2 /\ c3 /\ c4 /\ ~c5)
                     => last'.result = "UntrustedHostError"
                /\ (c1 /\ c2 /\ c3 /\ c4 /\ c5
                      /\ ~GetConnection(dbUsers, masterSecret))
                     => last'.result = "MasterCredentialInvalidError"
                /\ last'.result \in {"IdentityMismatchError", "HostMismatchError",
                                     "CurrentCredentialInvalidError",
                                     "UntrustedHostError",
                                     "MasterCredentialInvalidError",
                                     "UsernameTooLongError"}
                     => /\ last'.eff.execs = 0 /\ last'.eff.commits = 0
                        /\ dbUsers' = dbUsers
                /\ ~c1 => /\ last'.eff.execs = 0 /\ last'.eff.commits = 0
                          /\ dbUsers' = dbUsers]_vars

\* C15's case: on the replica endpoint, with the inventory confirming it,
\* set_secret went through every check, logged in with the master
\* credential and executed the statements.
C15_Witness ==
    /\ last.handler = "setSecret"
    /\ last.result = "ok"
    /\ last.eff.logins = 3
    /\ last.eff.execs > 0
    /\ CurrentDict.host = Db2

\* C15's other case: every check passed and the master login failed.
C15_WitnessMasterInvalid ==
    /\ last.handler = "setSecret"
    /\ last.result = "MasterCredentialInvalidError"
    /\ last.eff.logins = 3

\* set_secret gets as far as the grant loop: there is a PENDING record and
\* the master login, its third, succeeded.
ReachesGrants ==
    /\ SetSecretCalled
    /\ PendingAt(last'.token).err = "none"
    /\ last'.eff.logins = 3
    /\ last'.result # "MasterCredentialInvalidError"

\* C16 as stated: when set_secret gets to the grant loop it executes one
\* rewritten statement for every row of SHOW GRANTS for the CURRENT user.
C16_AsStated ==
    [][ReachesGrants
         => last'.eff.execs = Len(ShowGrants(dbUsers, CurrentDict.username))]_vars

\* What set_secret does at the grant loop: it executes the rewritten
\* statements row by row up to the first that fails, all of them when none
\* fails; the PENDING username is not the CURRENT one, and no user but the
\* PENDING one is changed; when set_secret returns normally the PENDING
\* user has the PENDING password and every privilege the CURRENT user has.
GrantsCopiedToPending ==
    [][/\ ReachesGrants
            => LET rows == ShowGrants(dbUsers, CurrentDict.username)
                   pending == PendingAt(last'.token).dict
                   n == last'.eff.execs
               IN  /\ pending.username # CurrentDict.username
                   /\ n \in 1..Len(rows)
                   /\ StatementsValid(n - 1)
                   /\ StatementsValid(n) <=> last'.result = "ok"
                   /\ last'.result = "ok" => n = Len(rows)
                   /\ \A u \in DOMAIN dbUsers \ {pending.username} :
                         u \in DOMAIN dbUsers' /\ dbUsers'[u] = dbUsers[u]
                   /\ DOMAIN dbUsers' \subseteq DOMAIN dbUsers \cup {pending.username}
       /\ (SetSecretCalled /\ last'.handler = "setSecret" /\ last'.result = "ok")
            => LET pending == PendingAt(last'.token).dict
               IN  /\ pending.username \in DOMAIN dbUsers'
                   /\ dbUsers'[pending.username].password = pending.password
                   /\ dbUsers'[CurrentDict.username].grants
                        \subseteq dbUsers'[pending.username].grants
                   /\ dbUsers'[CurrentDict.username]
                        = dbUsers[CurrentDict.username]]_vars

\* With no TO in the rows: set_secret executed the statements of both for a
\* PENDING user that did not exist, and that user now has the privileges
\* of the CURRENT one.
GrantsCopiedWitness ==
    /\ last.handler = "setSecret"
    /\ last.result = "ok"
    /\ last.eff.execs = 2
    /\ payload[last.token] # NoPayload
    /\ payload[last.token].username \in DOMAIN dbUsers
    /\ dbUsers[payload[last.token].username].grants = {"USAGE", "SELECT"}
    /\ dbUsers[payload[last.token].username].password
         = payload[last.token].password

\* C17 as stated: whenever there is no AWSPENDING record at the token,
\* create_secret stores one new payload at the token.
C17_AsStated ==
    [][CreateResolvesName
         => /\ last'.result = "ok"
            /\ last'.eff.puts = 1
            /\ payload'[last'.token] # NoPayload]_vars

\* C17: when there is no AWSPENDING record at the token (and the CURRENT
\* username can be cloned), create_secret makes one put_secret_value call:
\* the token's version gets the CURRENT record with the username replaced
\* by its alternate and the password by the one just generated, every other
\* field the same; that version carries AWSPENDING and nothing else, the
\* labels are as they were, and no other version's payload changes.
C17_CreateStoresCloneOfCurrent ==
    [][(CreateResolvesName /\ ~GetAltUsername(CurrentDict.username).err)
         => LET token == last'.token
                new == payload'[token]
            IN  /\ last'.result = "ok"
                /\ last'.eff.puts = 1 /\ last'.eff.gens = 1
                /\ new # NoPayload
                /\ new.username = GetAltUsername(CurrentDict.username).name
                /\ new.password \in RandomPasswords
                /\ new.password # CurrentDict.password
                /\ new = [CurrentDict EXCEPT !.username = new.username,
                                             !.password = new.password]
                /\ stages'[token] = {"AWSPENDING"}
                /\ stages' = stages
                /\ \A t \in Tokens \ {token} : payload'[t] = payload[t]
                /\ dbUsers' = dbUsers]_vars

\* C17's case: the CURRENT record is for app_user_clone on the replica
\* endpoint, and create_secret stored a record for app_user on that host
\* at the token.
C17_Witness ==
    /\ last.handler = "createSecret"
    /\ last.eff.puts = 1
    /\ CurrentDict.username = AppUserClone
    /\ CurrentDict.host = Db2
    /\ payload[last.token] = [CurrentDict EXCEPT
                                !.username = AppUser,
                                !.password = payload[last.token].password]
    /\ payload[last.token].password # CurrentDict.password
    /\ stages[last.token] = {"AWSPENDING"}

\* C18: is_rds_replica_database, called by set_secret for a CURRENT host
\* that is not the master's, says yes exactly when the lookup of the
\* CURRENT host's instance id (the host up to its first dot) does not
\* fail, returns an instance, and that instance's replication source is
\* the master's instance id.  When it says no, set_secret raises
\* UntrustedHostError without a master login or a database write.
C18_ReplicaCheckFailClosed ==
    [][(SetSecretCalled /\ ReachesHostCheck
          /\ CurrentDict.host # masterSecret.host)
         => LET id == InstanceId(CurrentDict.host)
                instances == DescribeDbInstances(rdsDb2, id)
                confirmed ==
                    /\ ~last'.lookupFails
                    /\ instances # <<>>
                    /\ instances[1].ReadReplicaSourceDBInstanceIdentifier # NoSource
                    /\ instances[1].ReadReplicaSourceDBInstanceIdentifier
                         = InstanceId(masterSecret.host)
            IN  /\ id = <<"d", "b", "2">>
                /\ IsRdsReplicaDatabase(rdsDb2, CurrentDict, masterSecret,
                                        last'.lookupFails) <=> confirmed
                /\ confirmed <=> last'.eff.logins = 3
                /\ ~confirmed
                     => /\ last'.result = "UntrustedHostError"
                        /\ last'.eff.execs = 0 /\ last'.eff.commits = 0
                        /\ dbUsers' = dbUsers]_vars

\* C18's case: the lookup returned an instance that is not a replica of
\* anything, and set_secret raised UntrustedHostError.
C18_Witness ==
    /\ last.handler = "setSecret"
    /\ last.result = "UntrustedHostError"
    /\ ~last.lookupFails
    /\ rdsDb2 = <<[ReadReplicaSourceDBInstanceIdentifier |-> NoSource]>>

\* C19: test_secret raises PendingCredentialInvalidError exactly when the
\* login with the PENDING record at the token fails; when the login
\* succeeds it executes its one probe and returns normally.  Either way it
\* makes one login attempt, calls nothing that writes to the secret store
\* and leaves users, passwords and privileges as they were.
C19_TestSecretProbesOnly ==
    [][(Invoked /\ last'.handler = "testSecret")
         => LET pending == PendingAt(last'.token)
            IN  /\ last'.result = "PendingCredentialInvalidError"
                     <=> /\ pending.err = "none"
                         /\ ~GetConnection(dbUsers, pending.dict)
                /\ (pending.err = "none" /\ GetConnection(dbUsers, pending.dict))
                     => /\ last'.result = "ok"
                        /\ last'.eff.probes = 1
                /\ last'.result # "ok" => last'.eff.probes = 0
                /\ pending.err = "none" => last'.eff.logins = 1
                /\ last'.eff.puts = 0 /\ last'.eff.moves = 0
                /\ last'.eff.gens = 0 /\ last'.eff.execs = 0
                /\ UNCHANGED <<stages, payload, dbUsers>>]_vars

\* C19's case: set_secret had succeeded for the token, and test_secret
\* logged in with the PENDING record and ran its probe.
C19_Witness ==
    /\ last.handler = "testSecret"
    /\ last.result = "ok"
    /\ last.eff.probes = 1
    /\ <<"setSecret", last.token>> \in succeeded

\* C19's other case: test_secret was called before set_secret had set the
\* password, and raised.
C19_WitnessInvalid ==
    /\ last.handler = "testSecret"
    /\ last.result = "PendingCredentialInvalidError"
    /\ payload[last.token] # NoPayload

\* The rotation for token t is complete: each of the four steps has been
\* called for it and returned normally.
Completed(t) == \A step \in Steps : <<step, t>> \in succeeded

\* Two rotations in a row are complete, for tokens t - 1 and t, and the
\* second one's version is AWSCURRENT.  Tokens are issued in sequence, so
\* version t - 2 was AWSCURRENT before them.
TwoRotationsDone(t) ==
    /\ t - 2 \in Tokens
    /\ Completed(t - 1) /\ Completed(t)
    /\ "AWSCURRENT" \in stages[t]

====
